---- MODULE Spec2Model ----
(***************************************************************************)
(* The live-feed connection manager (class WebSocketService) of the        *)
(* dashboard front end: connect / reconnect-on-close / disconnect and the  *)
(* fan-out of inbound payloads to the registered message handlers.         *)
(*                                                                         *)
(* The browser's WebSocket objects are the environment.  Each one goes     *)
(* CONNECTING -> OPEN -> CLOSING -> CLOSED (readyState), fires at most one *)
(* error event and exactly one close event, and fires message events only  *)
(* while OPEN.  Everything runs on one event loop: an event handler runs   *)
(* to completion, and the only code that runs in the middle of a dispatch  *)
(* is the code of the message handlers themselves.                         *)
(***************************************************************************)
EXTENDS Integers, Sequences, FiniteSets

\* ------------------------------------------------------------ bounds
\* transports that still owe a close event, plus reconnect timers not yet
\* fired, that callers of connect() let pile up
MaxPending == 2
\* distinct handler functions
MaxHandlers == 2
\* calls of onMessage over a run
MaxRegs == 2
\* distinct payloads a transport can produce
MaxData == 2

Transports == 1..MaxPending
Handlers == 1..MaxHandlers
Payloads == 1..MaxData

VARIABLES
    ws,              \* this.ws: a transport, or 0 for null
    isConnecting,    \* this.isConnecting
    messageHandlers, \* this.messageHandlers: a sequence of handlers
    readyState,      \* readyState of every WebSocket object; "FREE": not constructed
    closeDue,        \* the WebSocket objects whose close event has not fired yet
    timers,          \* pending setTimeout(() => this.connect(), 5000) callbacks
    pc,              \* "idle", or inside onmessage: "forEach" / "handler"
    iterArr,         \* the array object forEach iterates
    iterLen,         \* its length when forEach began
    iterK,           \* the index forEach is at
    iterShared,      \* this.messageHandlers is still that same array object
    curData,         \* event.data of the message being dispatched
    curSrc,          \* the transport whose onmessage is running
    issued,          \* issued[d]: the handler the d-th disposer closes over
    called,          \* the disposers called at least once
    snapshot,        \* this.messageHandlers when the current dispatch began
    delivered,       \* the calls forEach has made in the current dispatch
    op,              \* the operation that made the last step
    func,            \* FunctionList: the function whose card is rendered
    phase,           \* FunctionList: how far the rendering of the card is
    rendered         \* FunctionList: what the card shows so far

connVars == <<ws, isConnecting, readyState, closeDue, timers>>
iterVars == <<pc, iterArr, iterLen, iterK, iterShared, curData, curSrc, snapshot, delivered>>
regVars == <<messageHandlers, issued, called>>
vars == <<ws, isConnecting, messageHandlers, readyState, closeDue, timers,
          pc, iterArr, iterLen, iterK, iterShared, curData, curSrc,
          issued, called, snapshot, delivered, op, func, phase, rendered>>
listVars == <<func, phase, rendered>>

\* ------------------------------------------------------------ helpers
Filter(s, h) == SelectSeq(s, LAMBDA x : x # h)

Count(s, h) == Cardinality({i \in 1..Len(s) : s[i] = h})

Range(s) == {s[i] : i \in 1..Len(s)}

\* transports that owe a close event plus timers that owe a connect()
Pending == Cardinality({t \in Transports : closeDue[t]}) + timers

\* the four-state view of the manager
State ==
    IF ws = 0 THEN "Idle"
    ELSE IF readyState[ws] = "CONNECTING" THEN "Connecting"
    ELSE IF readyState[ws] = "OPEN" THEN "Open"
    ELSE "Closed"

\* transports in CONNECTING or OPEN
Live == {t \in Transports : readyState[t] \in {"CONNECTING", "OPEN"}}

\* ------------------------------------------------------------ constructor
\* the service object after its constructor
Constructed ==
    /\ ws = 0
    /\ isConnecting = FALSE
    /\ messageHandlers = <<>>
    /\ readyState = [t \in Transports |-> "FREE"]
    /\ closeDue = [t \in Transports |-> FALSE]
    /\ timers = 0
    /\ pc = "idle"
    /\ iterArr = <<>>
    /\ iterLen = 0
    /\ iterK = 0
    /\ iterShared = FALSE
    /\ curData = 0
    /\ curSrc = 0
    /\ issued = <<>>
    /\ called = {}
    /\ snapshot = <<>>
    /\ delivered = <<>>
    /\ op = "init"

\* JavaScript values a descriptor field can hold
Undefined == [kind |-> "undefined"]
Null == [kind |-> "null"]

\* no card: the list component is not part of the run
NoFunc == [type |-> "", schedule |-> <<>>, table_config |-> Undefined]
Blank == [badge |-> Undefined, branches |-> {}, schedule |-> <<>>,
          tableName |-> <<>>, reads |-> {}]

Init ==
    /\ Constructed
    /\ func = NoFunc
    /\ phase = "off"
    /\ rendered = Blank

\* ------------------------------------------------------------ connect()
\* the guard with the readyState tests left out
GuardFlagOnly == isConnecting

\* the guard with the OPEN test left out
GuardWithoutOpen ==
    \/ (ws # 0 /\ readyState[ws] = "CONNECTING")
    \/ isConnecting

\* the guard of connect()
AlreadyConnected ==
    \/ (ws # 0 /\ readyState[ws] = "OPEN")
    \/ (ws # 0 /\ readyState[ws] = "CONNECTING")
    \/ isConnecting

\* a WebSocket object nothing refers to any more and that owes no event is
\* garbage: the old value of this.ws once it is overwritten
Release(rs, t) ==
    IF t # 0 /\ rs[t] = "CLOSED" /\ ~closeDue[t] THEN [rs EXCEPT ![t] = "FREE"] ELSE rs

\* new WebSocket(wsUrl): a fresh object in CONNECTING
NewTransport(rs) == CHOOSE t \in Transports : rs[t] = "FREE" /\ \A u \in Transports : rs[u] = "FREE" => t <= u

\* the body of connect()
connect ==
    IF AlreadyConnected
    THEN UNCHANGED <<ws, isConnecting, readyState, closeDue>>
    ELSE LET rs == Release(readyState, ws) IN
         /\ \E t \in Transports : rs[t] = "FREE"
         /\ LET t == NewTransport(rs) IN
            /\ isConnecting' = TRUE
            /\ ws' = t
            /\ readyState' = [rs EXCEPT ![t] = "CONNECTING"]
            /\ closeDue' = [closeDue EXCEPT ![t] = TRUE]

\* a caller (the feed component's onMounted, or anyone) calls connect()
Connect ==
    /\ UNCHANGED listVars
    /\ pc = "idle"
    /\ AlreadyConnected \/ Pending < MaxPending
    /\ connect
    /\ op' = "connect"
    /\ UNCHANGED timers
    /\ UNCHANGED regVars
    /\ UNCHANGED iterVars

\* a reconnect timer fires: () => this.connect()
TimerFire ==
    /\ UNCHANGED listVars
    /\ pc = "idle"
    /\ timers > 0
    /\ timers' = timers - 1
    /\ connect
    /\ op' = "timer"
    /\ UNCHANGED regVars
    /\ UNCHANGED iterVars

\* connect() when new WebSocket(wsUrl) throws: the guard has been passed and
\* the flag is up; the assignment to this.ws and the four handler
\* assignments after it are not reached, and nothing catches
connectThrows ==
    /\ ~AlreadyConnected
    /\ isConnecting' = TRUE
    /\ UNCHANGED <<ws, readyState, closeDue>>

\* a caller calls connect() and the constructor throws
ConnectThrows ==
    /\ UNCHANGED listVars
    /\ pc = "idle"
    /\ connectThrows
    /\ op' = "connectThrow"
    /\ UNCHANGED timers
    /\ UNCHANGED regVars
    /\ UNCHANGED iterVars

\* a reconnect timer fires and the constructor throws
TimerFireThrows ==
    /\ UNCHANGED listVars
    /\ pc = "idle"
    /\ timers > 0
    /\ timers' = timers - 1
    /\ connectThrows
    /\ op' = "timerThrow"
    /\ UNCHANGED regVars
    /\ UNCHANGED iterVars

\* ------------------------------------------------------------ disconnect()
\* a close() that acts on an established connection only
closeOnlyWhenOpen(rs, t) ==
    IF rs[t] = "OPEN" THEN [rs EXCEPT ![t] = "CLOSING"] ELSE rs

\* WebSocket.close(): nothing when CLOSING or CLOSED, else CLOSING
close(rs, t) ==
    IF rs[t] \in {"CONNECTING", "OPEN"} THEN [rs EXCEPT ![t] = "CLOSING"] ELSE rs

Disconnect ==
    /\ UNCHANGED listVars
    /\ pc = "idle"
    /\ readyState' = IF ws # 0 THEN close(readyState, ws) ELSE readyState
    /\ op' = "disconnect"
    /\ UNCHANGED <<ws, isConnecting, closeDue, timers>>
    /\ UNCHANGED regVars
    /\ UNCHANGED iterVars

\* ------------------------------------------------------------ transport events
\* onopen
TransportOpen(t) ==
    /\ UNCHANGED listVars
    /\ pc = "idle"
    /\ readyState[t] = "CONNECTING"
    /\ readyState' = [readyState EXCEPT ![t] = "OPEN"]
    /\ isConnecting' = FALSE
    /\ op' = "open"
    /\ UNCHANGED <<ws, closeDue, timers>>
    /\ UNCHANGED regVars
    /\ UNCHANGED iterVars

\* an onerror that schedules a reconnect of its own
ErrorSchedulesToo(n) == n + 1

\* onerror logs and clears the flag; it sets no timer
ErrorSchedules(n) == n

\* onerror: the connection failed; the object is CLOSED when the event fires
\* and its close event follows
TransportError(t) ==
    /\ UNCHANGED listVars
    /\ pc = "idle"
    /\ readyState[t] \in {"CONNECTING", "OPEN", "CLOSING"}
    /\ readyState' = [readyState EXCEPT ![t] = "CLOSED"]
    /\ isConnecting' = FALSE
    /\ timers' = ErrorSchedules(timers)
    /\ op' = "error"
    /\ UNCHANGED <<ws, closeDue>>
    /\ UNCHANGED regVars
    /\ UNCHANGED iterVars

\* an onclose that reconnects after a graceful close only
ScheduleReconnectUnlessFailed(t, n) == IF readyState[t] = "CLOSED" THEN n ELSE n + 1

\* onclose: setTimeout(() => this.connect(), 5000), one more pending timer,
\* whatever the state the transport closes from
ScheduleReconnect(t, n) == n + 1

\* an onclose that leaves the flag as it is
FlagKeptAfterClose == isConnecting

\* onclose: this.isConnecting = false
FlagAfterClose == FALSE

\* onclose: after an error event, after close(), or when the server closes
\* an open connection
TransportClose(t) ==
    /\ UNCHANGED listVars
    /\ pc = "idle"
    /\ closeDue[t]
    /\ readyState[t] \in {"OPEN", "CLOSING", "CLOSED"}
    /\ readyState' = [readyState EXCEPT ![t] = IF t = ws THEN "CLOSED" ELSE "FREE"]
    /\ closeDue' = [closeDue EXCEPT ![t] = FALSE]
    /\ isConnecting' = FlagAfterClose
    /\ timers' = ScheduleReconnect(t, timers)
    /\ op' = "close"
    /\ UNCHANGED <<ws>>
    /\ UNCHANGED regVars
    /\ UNCHANGED iterVars
\* ------------------------------------------------------------ onMessage(handler)
\* this.messageHandlers.push(handler): in place, so the array a running
\* forEach iterates grows too when it is still the same object
Push(s, h) == Append(s, h)

OnMessage(h) ==
    /\ UNCHANGED listVars
    /\ pc \in {"idle", "handler"}
    /\ Len(issued) < MaxRegs
    /\ messageHandlers' = Push(messageHandlers, h)
    /\ iterArr' = IF iterShared THEN Push(iterArr, h) ELSE iterArr
    /\ issued' = Append(issued, h)
    /\ op' = "onMessage"
    /\ UNCHANGED connVars
    /\ UNCHANGED <<pc, iterLen, iterK, iterShared, curData, curSrc, snapshot, delivered>>
    /\ UNCHANGED called

\* a disposer that removes the first registration of the handler only
RemoveFirst(s, h) ==
    IF \E i \in 1..Len(s) : s[i] = h
    THEN LET i == CHOOSE j \in 1..Len(s) : s[j] = h /\ \A k \in 1..(j - 1) : s[k] # h
         IN SubSeq(s, 1, i - 1) \o SubSeq(s, i + 1, Len(s))
    ELSE s

\* the disposer: this.messageHandlers = this.messageHandlers.filter(h => h !== handler)
Unregister(s, h) == Filter(s, h)

\* filter builds a new array: a running forEach keeps the old one
SharedAfterFilter == FALSE

\* what the disposer does to the array a running forEach iterates
IterAfterFilter(h) == iterArr

Dispose(d) ==
    /\ UNCHANGED listVars
    /\ pc \in {"idle", "handler"}
    /\ d \in 1..Len(issued)
    /\ messageHandlers' = Unregister(messageHandlers, issued[d])
    /\ iterShared' = (iterShared /\ SharedAfterFilter)
    /\ iterArr' = IF iterShared THEN IterAfterFilter(issued[d]) ELSE iterArr
    /\ called' = called \cup {d}
    /\ op' = "dispose"
    /\ UNCHANGED connVars
    /\ UNCHANGED <<pc, iterLen, iterK, curData, curSrc, snapshot, delivered>>
    /\ UNCHANGED issued

\* ------------------------------------------------------------ onmessage
\* a forEach that leaves out the last element
ForEachAllButLast(s) == Len(s) - 1

\* the range forEach visits is fixed before the first call
ForEachLen(s) == Len(s)

\* onmessage has returned (or was left by an exception): its frame is gone
EndDispatch ==
    /\ pc' = "idle"
    /\ iterArr' = <<>>
    /\ iterLen' = 0
    /\ iterK' = 0
    /\ iterShared' = FALSE
    /\ curData' = 0
    /\ curSrc' = 0
    /\ snapshot' = <<>>
    /\ delivered' = <<>>

\* a message event of an OPEN transport, event.data = data:
\* this.messageHandlers.forEach(handler => handler(event.data))
TransportMessage(t, data) ==
    /\ UNCHANGED listVars
    /\ pc = "idle"
    /\ readyState[t] = "OPEN"
    /\ IF ForEachLen(messageHandlers) = 0
       THEN UNCHANGED iterVars
       ELSE /\ pc' = "forEach"
            /\ curData' = data
            /\ curSrc' = t
            /\ snapshot' = messageHandlers
            /\ delivered' = <<>>
            /\ iterArr' = messageHandlers
            /\ iterLen' = ForEachLen(messageHandlers)
            /\ iterK' = 1
            /\ iterShared' = TRUE
    /\ op' = "message"
    /\ UNCHANGED connVars
    /\ UNCHANGED regVars

\* forEach is done with index iterK: the next index, or the end of the loop
Advance ==
    IF iterK + 1 > iterLen
    THEN EndDispatch
    ELSE /\ iterK' = iterK + 1
         /\ pc' = "forEach"
         /\ UNCHANGED <<iterArr, iterLen, iterShared, curData, curSrc, snapshot, delivered>>

\* the argument the arrow function passes to the handler
Argument == curData

\* forEach calls the handler at index iterK with event.data
\* (an index the array no longer has is skipped)
Invoke ==
    /\ UNCHANGED listVars
    /\ pc = "forEach"
    /\ IF iterK <= Len(iterArr)
       THEN /\ delivered' = Append(delivered, [handler |-> iterArr[iterK], arg |-> Argument])
            /\ pc' = "handler"
            /\ UNCHANGED <<iterArr, iterLen, iterK, iterShared, curData, curSrc, snapshot>>
       ELSE Advance
    /\ op' = "invoke"
    /\ UNCHANGED connVars
    /\ UNCHANGED regVars

\* the handler returns: forEach goes on
HandlerReturn ==
    /\ UNCHANGED listVars
    /\ pc = "handler"
    /\ Advance
    /\ op' = "return"
    /\ UNCHANGED connVars
    /\ UNCHANGED regVars

\* what a throwing handler does to the loop: nothing catches, the exception
\* leaves forEach and onmessage
Propagate == EndDispatch

\* the handler throws
HandlerThrow ==
    /\ UNCHANGED listVars
    /\ pc = "handler"
    /\ Propagate
    /\ op' = "throw"
    /\ UNCHANGED connVars
    /\ UNCHANGED regVars

\* ============================================================ FunctionList
\* The card of one function of the catalog: the badge (getBadgeClass), the
\* trigger branches of the template and the schedule text
\* (formatCronSchedule).  A string the code takes apart is a sequence of
\* its characters; a string it only compares is a string.

\* ------------------------------------------------------------ bounds
\* numeric minute fields 0..MaxMinute and hour fields 0..MaxHour, each also
\* with a leading zero; expressions of 1..MaxFields fields
MaxMinute == 11
MaxHour == 24
MaxFields == 6

\* ------------------------------------------------------------ strings
DigitChars == <<"0", "1", "2", "3", "4", "5", "6", "7", "8", "9">>

\* \d
IsDigit(c) == \E i \in 1..Len(DigitChars) : DigitChars[i] = c

DigitVal(c) == (CHOOSE i \in 1..Len(DigitChars) : DigitChars[i] = c) - 1

\* s.match(/^\d+$/)
AllDigits(s) == Len(s) >= 1 /\ \A i \in 1..Len(s) : IsDigit(s[i])

\* parseInt(s) of a string of digits
RECURSIVE parseInt(_)
parseInt(s) ==
    IF s = <<>> THEN 0
    ELSE 10 * parseInt(SubSeq(s, 1, Len(s) - 1)) + DigitVal(s[Len(s)])

\* `${n}` of an integer n >= 0
RECURSIVE ToString(_)
ToString(n) ==
    IF n < 10 THEN <<DigitChars[n + 1]>>
    ELSE ToString(n \div 10) \o <<DigitChars[(n % 10) + 1]>>

\* s.padStart(w, c)
RECURSIVE padStart(_, _, _)
padStart(s, w, c) == IF Len(s) >= w THEN s ELSE padStart(<<c>> \o s, w, c)

\* s.startsWith(p)
startsWith(s, p) == Len(s) >= Len(p) /\ SubSeq(s, 1, Len(p)) = p

endsWith(s, p) == Len(s) >= Len(p) /\ SubSeq(s, Len(s) - Len(p) + 1, Len(s)) = p

\* s.substring(k)
substring(s, k) == SubSeq(s, k + 1, Len(s))

\* s.split(c) for a one-character separator: the pieces between its
\* occurrences, empty pieces included
RECURSIVE split(_, _)
split(s, c) ==
    IF \A i \in 1..Len(s) : s[i] # c THEN <<s>>
    ELSE LET i == CHOOSE j \in 1..Len(s) : s[j] = c /\ \A k \in 1..(j - 1) : s[k] # c
         IN <<SubSeq(s, 1, i - 1)>> \o split(SubSeq(s, i + 1, Len(s)), c)

\* the pieces joined again, sep between them
RECURSIVE Join(_, _)
Join(fs, sep) ==
    IF Len(fs) = 0 THEN <<>>
    ELSE IF Len(fs) = 1 THEN fs[1]
    ELSE fs[1] \o sep \o Join(Tail(fs), sep)

\* ------------------------------------------------------------ formatCronSchedule
\* '*/1 * * * *' and 'Every minute'
EveryMinuteCron == <<"*", "/", "1", " ", "*", " ", "*", " ", "*", " ", "*">>
EveryMinute ==
    <<"E", "v", "e", "r", "y", " ", "m", "i", "n", "u", "t", "e">>
\* '0/5 * * * *' and 'Every 5 minutes'
Every5MinutesCron == <<"0", "/", "5", " ", "*", " ", "*", " ", "*", " ", "*">>
Every5Minutes ==
    <<"E", "v", "e", "r", "y", " ", "5", " ", "m", "i", "n", "u", "t", "e", "s">>
\* '0/15 * * * *' and 'Every 15 minutes'
Every15MinutesCron == <<"0", "/", "1", "5", " ", "*", " ", "*", " ", "*", " ", "*">>
Every15Minutes ==
    <<"E", "v", "e", "r", "y", " ", "1", "5", " ", "m", "i", "n", "u", "t", "e", "s">>
\* '0/30 * * * *' and 'Every 30 minutes'
Every30MinutesCron == <<"0", "/", "3", "0", " ", "*", " ", "*", " ", "*", " ", "*">>
Every30Minutes ==
    <<"E", "v", "e", "r", "y", " ", "3", "0", " ", "m", "i", "n", "u", "t", "e", "s">>
\* '0 * * * *' and 'Every hour'
EveryHourCron == <<"0", " ", "*", " ", "*", " ", "*", " ", "*">>
EveryHour ==
    <<"E", "v", "e", "r", "y", " ", "h", "o", "u", "r">>
\* '0 0 * * *' and 'Every day at midnight'
MidnightCron == <<"0", " ", "0", " ", "*", " ", "*", " ", "*">>
EveryDayAtMidnight ==
    <<"E", "v", "e", "r", "y", " ", "d", "a", "y", " ", "a", "t", " ", "m", "i", "d", "n", "i", "g", "h", "t">>
\* '0 12 * * *' and 'Every day at noon'
NoonCron == <<"0", " ", "1", "2", " ", "*", " ", "*", " ", "*">>
EveryDayAtNoon ==
    <<"E", "v", "e", "r", "y", " ", "d", "a", "y", " ", "a", "t", " ", "n", "o", "o", "n">>

\* the pieces of the two template literals
Every == <<"E", "v", "e", "r", "y", " ">>
Minute == <<" ", "m", "i", "n", "u", "t", "e">>
EveryDayAt == <<"E", "v", "e", "r", "y", " ", "d", "a", "y", " ", "a", "t", " ">>
AM == <<"A", "M">>
PM == <<"P", "M">>

\* no phrase: the common cases did not match
NoMatch == <<>>

\* the seven tests for common cases, in their order
ExactMatch(cronExpression) ==
    IF cronExpression = EveryMinuteCron THEN EveryMinute
    ELSE IF cronExpression = Every5MinutesCron THEN Every5Minutes
    ELSE IF cronExpression = Every15MinutesCron THEN Every15Minutes
    ELSE IF cronExpression = Every30MinutesCron THEN Every30Minutes
    ELSE IF cronExpression = EveryHourCron THEN EveryHour
    ELSE IF cronExpression = MidnightCron THEN EveryDayAtMidnight
    ELSE IF cronExpression = NoonCron THEN EveryDayAtNoon
    ELSE NoMatch

\* a plural that does not look at the interval
AlwaysPlural(interval) == <<"s">>

\* interval === '1' ? '' : 's'
Plural(interval) == IF interval = <<"1">> THEN <<>> ELSE <<"s">>

\* an hour that forgets the || 12
HourMod12(hour) == parseInt(hour) % 12

\* parseInt(hour) % 12 || 12
formattedHour(hour) == IF parseInt(hour) % 12 = 0 THEN 12 ELSE parseInt(hour) % 12

\* parseInt(hour) >= 12 ? 'PM' : 'AM'
ampm(hour) == IF parseInt(hour) >= 12 THEN PM ELSE AM

\* minute.padStart(2, '0')
formattedMinute(minute) == padStart(minute, 2, "0")

\* the interval rule, the clock-time rule, and the original expression for
\* anything more complex
ByFields(minute, hour, cronExpression) ==
    IF startsWith(minute, <<"*", "/">>)
    THEN LET interval == substring(minute, 2)
         IN Every \o interval \o Minute \o Plural(interval)
    ELSE IF AllDigits(minute) /\ AllDigits(hour)
    THEN EveryDayAt \o ToString(formattedHour(hour)) \o <<":">>
            \o formattedMinute(minute) \o <<" ">> \o ampm(hour)
    ELSE cronExpression

\* a length test that lets longer expressions through
TooFewParts(parts) == Len(parts) < 5

\* parts.length !== 5
WrongLength(parts) == Len(parts) # 5

\* formatCronSchedule after the common cases
ParseCron(cronExpression) ==
    LET parts == split(cronExpression, " ") IN
    IF WrongLength(parts) THEN cronExpression
    ELSE ByFields(parts[1], parts[2], cronExpression)

\* a formatCronSchedule that parses at once, the common cases left out
WithoutCommonCases(cronExpression) == ParseCron(cronExpression)

formatCronSchedule(cronExpression) ==
    IF ExactMatch(cronExpression) # NoMatch
    THEN ExactMatch(cronExpression)
    ELSE ParseCron(cronExpression)

\* ------------------------------------------------------------ getBadgeClass
\* the own properties of the object literal classes
OwnClasses == {"timer", "http", "unity_table"}

\* names every object literal inherits from Object.prototype
ObjectPrototype ==
    {"constructor", "toString", "toLocaleString", "valueOf", "hasOwnProperty",
     "isPrototypeOf", "propertyIsEnumerable", "__proto__"}

\* classes[triggerType]: an own property, else an inherited one (a function,
\* or Object.prototype itself), else undefined
ClassesLookup(triggerType) ==
    IF triggerType = "timer" THEN [kind |-> "string", value |-> "bg-primary"]
    ELSE IF triggerType = "http" THEN [kind |-> "string", value |-> "bg-success"]
    ELSE IF triggerType = "unity_table" THEN [kind |-> "string", value |-> "bg-warning text-dark"]
    ELSE IF triggerType \in ObjectPrototype THEN [kind |-> "inherited", value |-> triggerType]
    ELSE Undefined

\* what || and v-if take for true, of the values the card meets
Truthy(v) == v.kind \in {"object", "inherited"} \/ (v.kind = "string" /\ v.value # "")

\* classes[triggerType] || 'bg-secondary'
getBadgeClass(triggerType) ==
    IF Truthy(ClassesLookup(triggerType)) THEN ClassesLookup(triggerType)
    ELSE [kind |-> "string", value |-> "bg-secondary"]

\* ------------------------------------------------------------ the template
\* v-if / v-else-if / v-else-if on func.trigger.type
Branches(type) ==
    IF type = "timer" THEN {"timer"}
    ELSE IF type = "http" THEN {"http"}
    ELSE IF type = "unity_table" THEN {"unity_table"}
    ELSE {}

\* table_config.f: a property of null or undefined cannot be read
ReadField(tc, f) == IF tc.kind = "object" THEN tc[f] ELSE "TypeError"

\* a Table Name paragraph that reads the three parts without the v-if
TableNameUnguarded(tc) ==
    [text |-> <<ReadField(tc, "catalog"), ".", ReadField(tc, "schema"), ".", ReadField(tc, "name")>>,
     reads |-> {"catalog", "schema", "name"}]

\* the Table Name paragraph: v-if="func.trigger.table_config", v-else N/A
TableName(tc) ==
    IF Truthy(tc)
    THEN [text |-> <<ReadField(tc, "catalog"), ".", ReadField(tc, "schema"), ".", ReadField(tc, "name")>>,
          reads |-> {"catalog", "schema", "name"}]
    ELSE [text |-> <<"N/A">>, reads |-> {}]

\* ------------------------------------------------------------ the catalog
\* numerals 0..max, and 0..9 with a leading zero
Numerals(max) ==
    {ToString(n) : n \in 0..max} \cup {<<"0">> \o ToString(n) : n \in 0..(IF max < 9 THEN max ELSE 9)}

MinuteFields ==
    Numerals(MaxMinute)
    \cup {<<"*", "/">> \o n : n \in Numerals(MaxMinute) \cup {<<>>, <<"x">>}}
    \cup {<<"*">>, <<"x">>, <<"3", "0">>, <<"0", "/", "5">>, <<"0", "/", "1", "5">>, <<"0", "/", "3", "0">>}

HourFields == Numerals(MaxHour) \cup {<<"*">>, <<"x">>}

\* how the fields are separated, and the day-of-week field
Layouts ==
    {[sep |-> <<" ">>, dayOfWeek |-> <<"*">>],
     [sep |-> <<" ">>, dayOfWeek |-> <<"1">>],
     [sep |-> <<"\t">>, dayOfWeek |-> <<"*">>],
     [sep |-> <<" ", " ">>, dayOfWeek |-> <<"*">>]}

\* the first k fields of minute hour * * dayOfWeek * * ...
FieldsOf(minute, hour, dayOfWeek, k) ==
    [i \in 1..k |-> IF i = 1 THEN minute
                    ELSE IF i = 2 THEN hour
                    ELSE IF i = 5 THEN dayOfWeek
                    ELSE <<"*">>]

CronExpressions ==
    {Join(FieldsOf(m, h, l.dayOfWeek, k), l.sep) :
        m \in MinuteFields, h \in HourFields, l \in Layouts, k \in 1..MaxFields}

TableConfigs ==
    {Undefined, Null, [kind |-> "object", catalog |-> "main", schema |-> "sales", name |-> "orders"]}

\* trigger tags: the three of the catalog, unknown ones, and unknown ones
\* that name a member of Object.prototype
Tags ==
    {"timer", "http", "unity_table", "kafka", "Timer", "",
     "constructor", "toString", "__proto__"}

\* func.trigger of the functions the catalog can hold
Functions ==
    {[type |-> "timer", schedule |-> e, table_config |-> Undefined] : e \in CronExpressions}
    \cup {[type |-> "unity_table", schedule |-> <<>>, table_config |-> tc] : tc \in TableConfigs}
    \cup {[type |-> t, schedule |-> <<>>, table_config |-> Undefined] :
             t \in Tags \ {"timer", "unity_table"}}

\* ------------------------------------------------------------ rendering a card
\* the catalog has been fetched: the card of func is about to be rendered
ListInit ==
    /\ Constructed
    /\ func \in Functions
    /\ phase = "fetched"
    /\ rendered = Blank

\* the badge of the card title: :class="getBadgeClass(func.trigger.type)"
GetBadgeClass ==
    /\ phase = "fetched"
    /\ rendered' = [rendered EXCEPT !.badge = getBadgeClass(func.type)]
    /\ phase' = "badge"
    /\ UNCHANGED func
    /\ UNCHANGED <<connVars, iterVars, regVars, op>>

\* the card text: the branch of the trigger type and what it shows
RenderTrigger ==
    /\ phase = "badge"
    /\ rendered' =
          [rendered EXCEPT
             !.branches = Branches(func.type),
             !.schedule = IF "timer" \in Branches(func.type)
                          THEN formatCronSchedule(func.schedule) ELSE <<>>,
             !.tableName = IF "unity_table" \in Branches(func.type)
                           THEN TableName(func.table_config).text ELSE <<>>,
             !.reads = IF "unity_table" \in Branches(func.type)
                       THEN TableName(func.table_config).reads ELSE {}]
    /\ phase' = "rendered"
    /\ UNCHANGED func
    /\ UNCHANGED <<connVars, iterVars, regVars, op>>

ListNext ==
    \/ GetBadgeClass
    \/ RenderTrigger

ListSpec == ListInit /\ [][ListNext]_vars

\* ------------------------------------------------------------ WebSocketService, specification
Next ==
    \/ Connect
    \/ TimerFire
    \/ Disconnect
    \/ \E t \in Transports : TransportOpen(t)
    \/ \E t \in Transports : TransportError(t)
    \/ \E t \in Transports : TransportClose(t)
    \/ \E t \in Transports, data \in Payloads : TransportMessage(t, data)
    \/ Invoke
    \/ HandlerReturn
    \/ HandlerThrow
    \/ \E h \in Handlers : OnMessage(h)
    \/ \E d \in 1..MaxRegs : Dispose(d)

Spec == Init /\ [][Next]_vars

\* The event loop runs every queued task: a reconnect timer that is due fires,
\* a transport that is closing or has failed gets its close event, and a
\* dispatch that has begun runs to its end (handlers return or throw).
\* Nothing makes a caller call connect(), a connection open, or an open
\* connection fail.
ClosePending(t) == readyState[t] \in {"CLOSING", "CLOSED"} /\ TransportClose(t)

Fairness ==
    /\ WF_vars(TimerFire)
    /\ \A t \in Transports : WF_vars(ClosePending(t))
    /\ WF_vars(Invoke)
    /\ WF_vars(HandlerReturn \/ HandlerThrow)

LiveSpec == Init /\ [][Next]_vars /\ Fairness

\* the same program in an environment where new WebSocket(wsUrl) can throw
\* (a URL the browser refuses, a policy that blocks the connection)
NextThrow ==
    \/ Next
    \/ ConnectThrows
    \/ TimerFireThrows

ThrowSpec == Init /\ [][NextThrow]_vars

TypeOK ==
    /\ ws \in 0..MaxPending
    /\ isConnecting \in BOOLEAN
    /\ timers \in 0..MaxPending
    /\ Pending <= MaxPending
    /\ pc \in {"idle", "forEach", "handler"}
    /\ Len(messageHandlers) <= MaxRegs

\* ------------------------------------------------------------ properties

\* C1: at any time at most one transport created by the manager is in
\* CONNECTING or OPEN, whatever the order of connect(), disconnect(),
\* transport events and timer firings.
C1_AtMostOneLiveTransport == Cardinality(Live) <= 1

\* connect() has just created a transport while the one it replaced still
\* owes its close event
C1_Witness ==
    /\ op \in {"connect", "timer"}
    /\ Live = {ws}
    /\ \E t \in Transports : t # ws /\ closeDue[t]

\* C2: connect() called while the manager is Connecting or Open changes
\* nothing: no transport is created and the handle, the flag, the handlers
\* and the pending timers stay as they are (a timer that calls connect() is
\* itself gone, nothing else).
C2_ConnectIsNoOpWhenConnected ==
    [][ /\ (op' = "connect" /\ State \in {"Connecting", "Open"})
            => UNCHANGED <<ws, isConnecting, messageHandlers, readyState, closeDue, timers>>
        /\ (op' = "timer" /\ State \in {"Connecting", "Open"})
            => /\ UNCHANGED <<ws, isConnecting, messageHandlers, readyState, closeDue>>
               /\ timers' = timers - 1 ]_vars

\* connect() was called on an open connection whose flag is down
C2_Witness == op = "connect" /\ State = "Open" /\ ~isConnecting

\* C3: a close event adds exactly one reconnect timer, after an error event
\* or not, and creates no transport itself; an error event adds no timer.
C3_CloseSchedulesOneReconnect ==
    [][ /\ op' = "close" => /\ timers' = timers + 1
                            /\ ws' = ws
                            /\ \A t \in Transports : readyState'[t] # "CONNECTING"
                                                     \/ readyState[t] = "CONNECTING"
        /\ op' = "error" => /\ timers' = timers
                            /\ ws' = ws ]_vars

\* the close event of a failed transport has fired and a second timer is pending
C3_Witness == op = "close" /\ timers = 2 /\ ws # 0 /\ readyState[ws] = "CLOSED"

\* C4: whenever the manager's transport is closing or closed, a new attempt
\* (state Connecting) follows, again and again.
C4_ReconnectNeverGivesUp == (State = "Closed") ~> (State = "Connecting")

\* a timer has started a new attempt while another timer is still pending
C4_Witness == op = "timer" /\ State = "Connecting" /\ timers >= 1

\* C5: disconnect() does nothing without a transport and closes the one it
\* has; the reconnect is not suppressed: a new attempt follows.
C5_DisconnectStillReconnects ==
    /\ [][ op' = "disconnect" =>
             /\ UNCHANGED <<ws, isConnecting, closeDue, timers, messageHandlers>>
             /\ ws = 0 => UNCHANGED readyState
             /\ ws # 0 => /\ readyState'[ws] \in {"CLOSING", "CLOSED"}
                          /\ \A t \in Transports : t # ws => readyState'[t] = readyState[t] ]_vars
    /\ (op = "disconnect" /\ ws # 0) ~> (State = "Connecting")

\* disconnect() has just closed an open or connecting transport
C5_Witness == op = "disconnect" /\ ws # 0 /\ readyState[ws] = "CLOSING" /\ timers = 0


\* how often the current dispatch has called handler h with the payload
Calls(h) ==
    Cardinality({i \in 1..Len(delivered) :
                    delivered[i].handler = h /\ delivered[i].arg = curData})

\* the dispatch of a payload ends with this step
DispatchEnds == pc # "idle" /\ pc' = "idle"

\* C6: whatever was registered and disposed before, a payload is delivered
\* exactly once to every consumer registered when it arrives, with the raw
\* payload, before the next payload is dispatched, and to nobody else.
C6_EveryConsumerExactlyOnce ==
    /\ [][ DispatchEnds =>
             \A h \in Handlers : Calls(h) = IF h \in Range(snapshot) THEN 1 ELSE 0 ]_vars
    /\ [][ op' = "message" => pc = "idle" /\ delivered = <<>> ]_vars

\* C7: a handler that throws does not stop the dispatch: unless it was the
\* last one, forEach goes on to the next handler.
C7_ThrowDoesNotStopDelivery ==
    [][ (op' = "throw" /\ iterK < iterLen) => pc' = "forEach" ]_vars

\* s2 is s without its entries equal to h, the others in their order
RemovedFrom(s, h, s2) ==
    LET keep == {j \in 1..Len(s) : s[j] # h} IN
    /\ Len(s2) = Cardinality(keep)
    /\ \E f \in [1..Len(s2) -> keep] :
          /\ \A i, j \in 1..Len(s2) : i < j => f[i] < f[j]
          /\ \A i \in 1..Len(s2) : s2[i] = s[f[i]]

C9_MutationDoesNotDisturbDispatch ==
    /\ [][ (DispatchEnds /\ messageHandlers # snapshot) =>
             \A h \in Range(snapshot) : Calls(h) = 1 ]_vars
    /\ [][ (op' = "invoke" /\ delivered' # delivered) =>
             delivered'[Len(delivered')].handler \in Range(snapshot) ]_vars

\* the transport whose error event this step is
Errored(t) == op' = "error" /\ readyState[t] # "CLOSED" /\ readyState'[t] = "CLOSED"

\* C10, as stated: after any transport error event the manager is Closed.
C10_AnyErrorLeadsToClosed == [][ op' = "error" => State' = "Closed" ]_vars

\* C10, amended: an error event of the transport the manager holds leaves
\* the manager Closed, sets no timer, and a new attempt follows; an error
\* event of a transport already replaced leaves the manager's state alone.
C10_ErrorOfCurrentTransport ==
    /\ [][ \A t \in Transports : Errored(t) =>
             /\ t = ws => State' = "Closed"
             /\ t # ws => State' = State
             /\ UNCHANGED <<ws, timers, closeDue>> ]_vars
    /\ (op = "error" /\ State = "Closed") ~> (State = "Connecting")

\* the manager's own transport has failed and its close event is still due
C10_Witness ==
    /\ op = "error"
    /\ State = "Closed"
    /\ closeDue[ws]
    /\ \A t \in Transports : t # ws => ~closeDue[t]


\* no WebSocket object owes an event any more: none can open, fail or close
NoEventOwed ==
    \A t \in Transports : readyState[t] \in {"FREE", "CLOSED"} /\ ~closeDue[t]

\* every connect() returns at its guard, and no event and no timer is left
\* that could lower the flag
Stuck == isConnecting /\ NoEventOwed /\ pc = "idle"

\* once the manager is stuck it stays stuck, whatever is called
StuckForEver == [][Stuck => (isConnecting' /\ NoEventOwed')]_vars

\* C11: a throwing transport constructor does not break the reconnect loop:
\* the manager never gets into a state where every later connect() is
\* rejected by the guard and nothing is left that could lower the flag.
C11_ThrowLeavesLoopAlive == ~Stuck

\* ------------------------------------------------------------ FunctionList, properties
\* the card of a timer function has been rendered
TimerRendered == phase = "rendered" /\ func.type = "timer"

\* the common cases and their phrases
CronTable ==
    <<[expr |-> EveryMinuteCron, phrase |-> EveryMinute],
      [expr |-> Every5MinutesCron, phrase |-> Every5Minutes],
      [expr |-> Every15MinutesCron, phrase |-> Every15Minutes],
      [expr |-> Every30MinutesCron, phrase |-> Every30Minutes],
      [expr |-> EveryHourCron, phrase |-> EveryHour],
      [expr |-> MidnightCron, phrase |-> EveryDayAtMidnight],
      [expr |-> NoonCron, phrase |-> EveryDayAtNoon]>>

InTable(e) == \E i \in 1..Len(CronTable) : CronTable[i].expr = e

\* C12: an expression equal to one of the seven table entries is shown as
\* that entry's phrase, whatever the interval rule or the clock-time rule
\* would make of it; the seven entries are what the catalog can hold.
C12_TableEntriesFirst ==
    /\ TimerRendered =>
         \A i \in 1..Len(CronTable) :
            func.schedule = CronTable[i].expr => rendered.schedule = CronTable[i].phrase
    /\ \A i \in 1..Len(CronTable) : CronTable[i].expr \in CronExpressions

\* '*/1 * * * *', which the interval rule would show as 'Every 1 minute',
\* is shown as 'Every minute'
C12_Witness ==
    /\ TimerRendered
    /\ func.schedule = EveryMinuteCron
    /\ rendered.schedule = EveryMinute
    /\ startsWith(split(func.schedule, " ")[1], <<"*", "/">>)

\* the positions of the space characters of e
SpaceAt(e) == {i \in 1..Len(e) : e[i] = " "}

\* the i-th piece of e between space characters (the first piece starts e,
\* the last one ends it)
Field(e, i) ==
    LET nth(n) == CHOOSE p \in SpaceAt(e) : Cardinality({q \in SpaceAt(e) : q < p}) = n - 1
        from == IF i = 1 THEN 1 ELSE nth(i - 1) + 1
        to == IF i > Cardinality(SpaceAt(e)) THEN Len(e) ELSE nth(i) - 1
    IN SubSeq(e, from, to)

IsWhite(c) == c \in {" ", "\t"}

\* the fields of e as cron reads them: maximal runs of characters that are
\* not white space
WhitespaceFields(e) ==
    LET starts == {i \in 1..Len(e) : ~IsWhite(e[i]) /\ (i = 1 \/ IsWhite(e[i - 1]))}
        nth(n) == CHOOSE p \in starts : Cardinality({q \in starts : q < p}) = n - 1
        end(p) == IF \E j \in p..Len(e) : IsWhite(e[j])
                  THEN (CHOOSE j \in p..Len(e) : IsWhite(e[j]) /\ \A k \in p..(j - 1) : ~IsWhite(e[k])) - 1
                  ELSE Len(e)
    IN [n \in 1..Cardinality(starts) |-> SubSeq(e, nth(n), end(nth(n)))]

\* C13, as stated: an expression not in the table is split on white space;
\* with a field count other than five it is shown unchanged, with five fields
\* it goes on to the interval and clock-time rules.
C13_SplitOnWhitespace ==
    (TimerRendered /\ ~InTable(func.schedule)) =>
        LET fields == WhitespaceFields(func.schedule) IN
        rendered.schedule = IF Len(fields) # 5 THEN func.schedule
                            ELSE ByFields(fields[1], fields[2], func.schedule)

\* C13, amended: an expression not in the table is split at every single
\* space character (a tab separates nothing, two spaces in a row enclose an
\* empty field); with a piece count other than five it is shown unchanged,
\* with five pieces the first two go on to the interval and clock-time rules.
C13_SplitOnSingleSpaces ==
    (TimerRendered /\ ~InTable(func.schedule)) =>
        rendered.schedule = IF Cardinality(SpaceAt(func.schedule)) + 1 # 5 THEN func.schedule
                            ELSE ByFields(Field(func.schedule, 1), Field(func.schedule, 2),
                                          func.schedule)

\* five fields separated by tabs, the first an interval, shown unchanged
C13_Witness ==
    /\ TimerRendered
    /\ Len(WhitespaceFields(func.schedule)) = 5
    /\ SpaceAt(func.schedule) = {}
    /\ startsWith(func.schedule, <<"*", "/", "2">>)
    /\ rendered.schedule = func.schedule

\* r is 'Every ... minute' or 'Every ... minutes'
IsIntervalPhrase(r) ==
    /\ startsWith(r, Every)
    /\ endsWith(r, Minute) \/ endsWith(r, Minute \o <<"s">>)

\* the expression has five pieces and is not in the table
FiveFields(e) == ~InTable(e) /\ Cardinality(SpaceAt(e)) + 1 = 5

\* C14, as stated: a five-field expression not in the table whose minute
\* field is '*/N', N a number, is shown as 'Every N minute' when N is 1 and
\* as 'Every N minutes' otherwise; with any other minute field the result is
\* no interval phrase.
C14_IntervalOnlyForNumbers ==
    (TimerRendered /\ FiveFields(func.schedule)) =>
        LET minute == Field(func.schedule, 1)
            N == SubSeq(minute, 3, Len(minute))
        IN IF startsWith(minute, <<"*", "/">>) /\ AllDigits(N)
           THEN rendered.schedule =
                   Every \o N \o Minute \o (IF parseInt(N) = 1 THEN <<>> ELSE <<"s">>)
           ELSE ~IsIntervalPhrase(rendered.schedule)

\* C14, amended: a five-field expression not in the table whose minute field
\* starts with '*/' is shown as 'Every N minute' when the rest N of the field
\* is the string '1' and as 'Every N minutes' otherwise, whatever N is (a
\* number, letters, nothing); with a minute field that does not start with
\* '*/' the result is no interval phrase.
C14_IntervalForAnySuffix ==
    (TimerRendered /\ FiveFields(func.schedule)) =>
        LET minute == Field(func.schedule, 1)
            N == SubSeq(minute, 3, Len(minute))
        IN IF Len(minute) >= 2 /\ minute[1] = "*" /\ minute[2] = "/"
           THEN rendered.schedule =
                   Every \o N \o Minute \o (IF N = <<"1">> THEN <<>> ELSE <<"s">>)
           ELSE ~IsIntervalPhrase(rendered.schedule)

\* '*/1' outside the table is shown in the singular, and some '*/N' in the
\* plural
C14_Witness ==
    /\ TimerRendered
    /\ FiveFields(func.schedule)
    /\ Field(func.schedule, 1) = <<"*", "/", "1">>
    /\ rendered.schedule = Every \o <<"1">> \o Minute

\* C15: a five-field expression not in the table whose minute and hour
\* fields are both digits only is shown as 'Every day at H:MM AM|PM': H is
\* the number in 1..12 that equals the hour modulo 12, MM is the minute field
\* with a zero put before a single digit, and the suffix is PM exactly when
\* the hour is 12 or more.
C15_ClockTime ==
    (/\ TimerRendered
     /\ FiveFields(func.schedule)
     /\ AllDigits(Field(func.schedule, 1))
     /\ AllDigits(Field(func.schedule, 2))) =>
        LET minute == Field(func.schedule, 1)
            h == parseInt(Field(func.schedule, 2))
            MM == IF Len(minute) = 1 THEN <<"0">> \o minute ELSE minute
        IN \E H \in 1..12 :
              /\ (h - H) % 12 = 0
              /\ rendered.schedule =
                    EveryDayAt \o ToString(H) \o <<":">> \o MM \o <<" ">>
                       \o (IF h >= 12 THEN PM ELSE AM)

\* '5 0 * * *' is shown as 'Every day at 12:05 AM'
C15_Witness ==
    /\ TimerRendered
    /\ FiveFields(func.schedule)
    /\ Field(func.schedule, 1) = <<"5">>
    /\ Field(func.schedule, 2) = <<"0">>
    /\ rendered.schedule = EveryDayAt \o <<"1", "2", ":", "0", "5", " ", "A", "M">>

\* the badge of the card has been computed
BadgeRendered == phase \in {"badge", "rendered"}

\* C16: the badge class of 'timer', 'http' and 'unity_table' is the class of
\* that tag, and the badge class of every other tag, whatever string it is,
\* is the default class 'bg-secondary'.
C16_UnknownTagsGetDefault ==
    BadgeRendered =>
        rendered.badge =
            [kind |-> "string",
             value |-> IF func.type = "timer" THEN "bg-primary"
                       ELSE IF func.type = "http" THEN "bg-success"
                       ELSE IF func.type = "unity_table" THEN "bg-warning text-dark"
                       ELSE "bg-secondary"]

\* C16 for the tags that name no member of Object.prototype
C16_DefaultUnlessInherited ==
    (BadgeRendered /\ func.type \notin ObjectPrototype) =>
        rendered.badge =
            [kind |-> "string",
             value |-> IF func.type = "timer" THEN "bg-primary"
                       ELSE IF func.type = "http" THEN "bg-success"
                       ELSE IF func.type = "unity_table" THEN "bg-warning text-dark"
                       ELSE "bg-secondary"]

\* C17: the card of a timer, http or unity_table function shows exactly the
\* branch of its tag, and the Table Name of a unity_table function whose
\* table_config is absent or null is 'N/A', with no field of table_config
\* read.
C17_OneBranchAndNA ==
    phase = "rendered" =>
        /\ func.type \in {"timer", "http", "unity_table"} => rendered.branches = {func.type}
        /\ (func.type = "unity_table" /\ func.table_config.kind \in {"undefined", "null"}) =>
              /\ rendered.tableName = <<"N/A">>
              /\ rendered.reads = {}

\* a unity_table card without table_config has been rendered with 'N/A'
C17_Witness ==
    /\ phase = "rendered"
    /\ func.type = "unity_table"
    /\ func.table_config = Null
    /\ rendered.branches = {"unity_table"}
    /\ rendered.tableName = <<"N/A">>

\* ------------------------------------------------------------ WebSocketService, properties (continued)
\* the transitions of the four-state machine
Transitions ==
    {<<"Idle", "Connecting">>, <<"Connecting", "Open">>, <<"Connecting", "Closed">>,
     <<"Open", "Closed">>, <<"Closed", "Connecting">>}

\* the step is the transition from a to b, or changes no state
Maps(a, b) == (State = a /\ State' = b) \/ State' = State

\* C18: every step of the manager is a transition of the four-state machine
\* or a stutter: connect() and a timer firing take Idle or Closed to
\* Connecting, an open event takes Connecting to Open, disconnect() and a
\* close or error event take Connecting or Open to Closed, and registering,
\* disposing and dispatching change no state.
C18_RefinesStateMachine ==
    [][ /\ State' = State \/ <<State, State'>> \in Transitions
        /\ op' \in {"connect", "timer"} =>
              Maps("Idle", "Connecting") \/ Maps("Closed", "Connecting")
        /\ op' = "open" => Maps("Connecting", "Open")
        /\ op' \in {"disconnect", "close", "error"} =>
              Maps("Connecting", "Closed") \/ Maps("Open", "Closed")
        /\ op' \in {"onMessage", "dispose", "message", "invoke", "return", "throw"} =>
              State' = State ]_vars

\* a connection opened by the reconnect loop: the open event of a transport
\* created while an earlier one still owed its close event
C18_Witness ==
    /\ op = "open"
    /\ State = "Open"
    /\ \E t \in Transports : t # ws /\ readyState[t] # "FREE"

\* C19: connect(), disconnect(), the open, close and error events and the
\* reconnect timers leave the consumer list as it is; only onMessage and the
\* disposers change it; and a payload of whatever transport is open is
\* dispatched over the whole list as it is then, so a consumer registered
\* before a connection loss is still called for the new transport's payloads.
C19_OnlyRegistrationChangesConsumers ==
    /\ [][ op' \in {"connect", "timer", "disconnect", "open", "close", "error"} =>
             UNCHANGED <<messageHandlers, issued, called>> ]_vars
    /\ [][ messageHandlers' # messageHandlers => op' \in {"onMessage", "dispose"} ]_vars
    /\ [][ (op' = "message" /\ messageHandlers # <<>>) =>
             /\ pc' = "forEach"
             /\ iterArr' = messageHandlers
             /\ iterLen' = Len(messageHandlers)
             /\ iterK' = 1 ]_vars
    /\ [][ (op' = "invoke" /\ iterK <= Len(iterArr)) =>
             delivered' = Append(delivered, [handler |-> iterArr[iterK], arg |-> curData]) ]_vars

\* the only consumer, never disposed, is called with a payload of the second
\* transport while the first one is gone or going
C19_Witness ==
    /\ op = "invoke"
    /\ curSrc = 2
    /\ ws = 2
    /\ Len(issued) = 1
    /\ called = {}
    /\ Len(delivered) = 1
    /\ delivered[1].handler = issued[1]

====
